---------------------------- MODULE Spec2Model ----------------------------
(***************************************************************************)
(* Model of Adafruit_BBIO/Encoder.py: the RotaryEncoder controller, the    *)
(* static eQEP channel table and the sysfs attribute files it drives.      *)
(*                                                                         *)
(* Text is modelled as sequences of one-character strings, so that str()   *)
(* and int() are real conversions.  A Python int is a TLA+ integer; a      *)
(* Python float is a record [num, den] holding the exact quotient (the     *)
(* inputs are chosen so that every quotient is exactly representable as a  *)
(* double with a terminating decimal expansion).  The interpreter's major  *)
(* version is part of the state because "/" on two ints is floor division  *)
(* under Python 2 and true division under Python 3.                        *)
(*                                                                         *)
(* The kernel's attribute files are assumed present and writable: reads    *)
(* and writes through the sysfs Node succeed.                              *)
(***************************************************************************)
EXTENDS Integers, Sequences, FiniteSets, TLC

VARIABLES
    pyMajor,    \* major version of the interpreter running the module (2 or 3)
    sysfs,      \* sys_path -> attribute name -> file content (text)
    encoders,   \* the live RotaryEncoder objects, in order of construction
    lastCall    \* the most recent call: what was called, how it ended, its I/O

vars == <<pyMajor, sysfs, encoders, lastCall>>

(***************************************************************************)
(* Bounds                                                                  *)
(***************************************************************************)
MaxSelector == 5
MaxPosition == 12

(***************************************************************************)
(* Module constants                                                        *)
(***************************************************************************)
eQEP0 == 0
eQEP1 == 1
eQEP2 == 2
eQEP2b == 3

_OCP_PATH == "/sys/devices/platform/ocp"

_eQEP_DEFS ==
    << [channel |-> "eQEP0", pin_A |-> "P9_92", pin_B |-> "P9_27",
        sys_path |-> "/sys/devices/platform/ocp/48300000.epwmss/48300180.eqep"],
       [channel |-> "eQEP1", pin_A |-> "P8_35", pin_B |-> "P8_33",
        sys_path |-> "/sys/devices/platform/ocp/48302000.epwmss/48302180.eqep"],
       [channel |-> "eQEP2", pin_A |-> "P8_12", pin_B |-> "P8_11",
        sys_path |-> "/sys/devices/platform/ocp/48304000.epwmss/48304180.eqep"],
       [channel |-> "eQEP2b", pin_A |-> "P8_41", pin_B |-> "P8_42",
        sys_path |-> "/sys/devices/platform/ocp/48304000.epwmss/48304180.eqep"] >>

_NS_FACTOR == 1000000000

SysPaths == {_eQEP_DEFS[k].sys_path : k \in 1..Len(_eQEP_DEFS)}
Attributes == {"enabled", "mode", "position", "period"}

(***************************************************************************)
(* Python built-ins                                                        *)
(***************************************************************************)
DigitChars == <<"0", "1", "2", "3", "4", "5", "6", "7", "8", "9">>

Abs(n) == IF n < 0 THEN -n ELSE n

RECURSIVE NatStr(_)
NatStr(n) ==
    IF n < 10 THEN <<DigitChars[n + 1]>>
    ELSE NatStr(n \div 10) \o <<DigitChars[(n % 10) + 1]>>

\* str(n) for an int n
IntStr(n) == IF n < 0 THEN <<"-">> \o NatStr(-n) ELSE NatStr(n)

IsDigit(c) == \E d \in 1..10 : DigitChars[d] = c
DigitVal(c) == (CHOOSE d \in 1..10 : DigitChars[d] = c) - 1

RECURSIVE DigitsVal(_)
DigitsVal(s) ==
    IF s = <<>> THEN 0
    ELSE 10 * DigitsVal(SubSeq(s, 1, Len(s) - 1)) + DigitVal(s[Len(s)])

\* int(s) for a text s: an optional sign followed by one or more digits,
\* anything else is a ValueError
IntParse(s) ==
    LET signed == s # <<>> /\ s[1] \in {"-", "+"}
        body   == IF signed THEN Tail(s) ELSE s
    IN  IF body # <<>> /\ \A k \in 1..Len(body) : IsDigit(body[k])
        THEN [ok |-> TRUE,
              val |-> IF signed /\ s[1] = "-" THEN -DigitsVal(body)
                      ELSE DigitsVal(body)]
        ELSE [ok |-> FALSE, val |-> 0]

RECURSIVE Gcd(_, _)
Gcd(a, b) == IF b = 0 THEN a ELSE Gcd(b, a % b)

\* Python numbers: an int n is PyInt(n); a float is the exact quotient
\* num / den in lowest terms with den > 0
PyInt(n) == [float |-> FALSE, num |-> n, den |-> 1]

\* the float a / b, b # 0
Float(a, b) ==
    LET g == Gcd(Abs(a), Abs(b))
        s == IF b < 0 THEN -1 ELSE 1
    IN  [float |-> TRUE, num |-> (s * a) \div g, den |-> (s * b) \div g]

\* floor(a / b), b # 0
FloorDiv(a, b) == IF b > 0 THEN a \div b ELSE (-a) \div (-b)

\* a / b on two ints, b # 0: floor division under Python 2, true division
\* under Python 3
PyDiv(py, a, b) == IF py = 2 THEN PyInt(FloorDiv(a, b)) ELSE Float(a, b)

RECURSIVE FracDigits(_, _)
FracDigits(rem, den) ==
    IF rem = 0 THEN <<>>
    ELSE <<DigitChars[((rem * 10) \div den) + 1]>>
         \o FracDigits((rem * 10) % den, den)

\* str(x) for a float x with a terminating decimal expansion
FloatStr(x) ==
    LET a    == Abs(x.num)
        frac == FracDigits(a % x.den, x.den)
    IN  (IF x.num < 0 THEN <<"-">> ELSE <<>>)
        \o NatStr(a \div x.den) \o <<".">>
        \o (IF frac = <<>> THEN <<"0">> ELSE frac)

\* str(v) for a number v
PyStr(v) == IF v.float THEN FloatStr(v) ELSE IntStr(v.num)

\* v == n for a number v and an int n (1000.0 == 1000 is true)
NumEq(v, n) == v.num = n * v.den

(***************************************************************************)
(* sysfs Node: attribute access is a file read or a file overwrite         *)
(***************************************************************************)
NodeGet(fs, path, attr) == fs[path][attr]
NodeSet(fs, path, attr, text) == [fs EXCEPT ![path][attr] = text]

ReadEv(path, attr) == [kind |-> "read", target |-> <<path, attr>>, data |-> <<>>]
WriteEv(path, attr, text) ==
    [kind |-> "write", target |-> <<path, attr>>, data |-> text]
ExecEv(cmd, outcome) == [kind |-> "exec", target |-> cmd, data |-> <<outcome>>]

Call(op, enc, arg, result, trace) ==
    [op |-> op, enc |-> enc, arg |-> arg, result |-> result, trace |-> trace]

(***************************************************************************)
(* Inputs                                                                  *)
(***************************************************************************)
Selectors == (-MaxSelector)..MaxSelector
ExecOutcomes == {"exit0", "exit1", "oserror"}
ModeInputs == {-1, 0, 1, 2}
PositionInputs == (-MaxPosition)..MaxPosition
FrequencyInputs == {-1000, 0, 1000, 1024}

\* the inputs of the two-controller specification
PairSelectors == {eQEP0, eQEP1, eQEP2, eQEP2b}
PairModes == {1}
PairPositions == {15}
PairFrequencies == {1000}

(***************************************************************************)
(* Initial state: the module is imported, no encoder exists, the driver    *)
(* presents its attribute files.                                           *)
(***************************************************************************)
BootAttrs ==
    [a \in Attributes |->
        IF a = "period" THEN IntStr(_NS_FACTOR) ELSE IntStr(0)]

Init ==
    /\ pyMajor \in {2, 3}
    /\ sysfs = [p \in SysPaths |-> BootAttrs]
    /\ encoders = <<>>
    /\ lastCall = Call("import", 0, 0, "ok", <<>>)

(***************************************************************************)
(* _eQEP_DEFS[eqep_num]: Python list indexing                              *)
(***************************************************************************)
ListIndex(n, len) ==
    IF 0 <= n /\ n < len THEN n + 1
    ELSE IF -len <= n /\ n < 0 THEN len + n + 1
    ELSE 0

(***************************************************************************)
(* _run_cmd / _config_pin: check_output raises CalledProcessError on a     *)
(* non-zero exit (caught, logged) and OSError when the binary cannot be    *)
(* started (not caught).                                                   *)
(***************************************************************************)
\* _run_cmd without the except clause: a non-zero exit propagates
_run_cmd_uncaught(cmd, outcome) ==
    [raised |-> outcome # "exit0", trace |-> <<ExecEv(cmd, outcome)>>]

_run_cmd(cmd, outcome) ==
    [raised |-> outcome = "oserror", trace |-> <<ExecEv(cmd, outcome)>>]

\* _config_pin asking for the wrong pin mode
_config_pin_gpio(pin, outcome) ==
    _run_cmd(<<"config-pin", pin, "gpio">>, outcome)

_config_pin(pin, outcome) == _run_cmd(<<"config-pin", pin, "qep">>, outcome)

(***************************************************************************)
(* _setEnable(enabled): validate, write the enabled file, read it back for *)
(* the log line.                                                           *)
(***************************************************************************)
\* _setEnable that writes only when switching on
_setEnable_on_only(fs, eqep, enabled) ==
    IF enabled < 0 \/ enabled > 1
    THEN [result |-> "ValueError", fs |-> fs, trace |-> <<>>]
    ELSE [result |-> "ok",
          fs |-> IF enabled = 1
                 THEN NodeSet(fs, eqep.sys_path, "enabled", IntStr(enabled))
                 ELSE fs,
          trace |-> <<WriteEv(eqep.sys_path, "enabled", IntStr(enabled)),
                      ReadEv(eqep.sys_path, "enabled")>>]

_setEnable(fs, eqep, enabled) ==
    IF enabled < 0 \/ enabled > 1
    THEN [result |-> "ValueError", fs |-> fs, trace |-> <<>>]
    ELSE [result |-> "ok",
          fs |-> NodeSet(fs, eqep.sys_path, "enabled", IntStr(enabled)),
          trace |-> <<WriteEv(eqep.sys_path, "enabled", IntStr(enabled)),
                      ReadEv(eqep.sys_path, "enabled")>>]

(***************************************************************************)
(* RotaryEncoder(eqep_num)                                                 *)
(***************************************************************************)
New(eqep_num, outA, outB) ==
    /\ LET k == ListIndex(eqep_num, Len(_eQEP_DEFS)) IN
       IF k = 0
       THEN /\ lastCall' = Call("new", 0, eqep_num, "IndexError", <<>>)
            /\ UNCHANGED <<sysfs, encoders>>
       ELSE LET eqep == _eQEP_DEFS[k]
                cfgA == _config_pin(eqep.pin_A, outA)
                cfgB == _config_pin(eqep.pin_B, outB)
                en   == _setEnable(sysfs, eqep, 1)
            IN  IF cfgA.raised
                THEN /\ lastCall' = Call("new", 0, eqep_num, "OSError", cfgA.trace)
                     /\ UNCHANGED <<sysfs, encoders>>
                ELSE IF cfgB.raised
                THEN /\ lastCall' = Call("new", 0, eqep_num, "OSError",
                                         cfgA.trace \o cfgB.trace)
                     /\ UNCHANGED <<sysfs, encoders>>
                ELSE /\ sysfs' = en.fs
                     /\ encoders' = Append(encoders, eqep)
                     /\ lastCall' = Call("new", Len(encoders) + 1, eqep_num,
                                         en.result,
                                         cfgA.trace \o cfgB.trace \o en.trace)
    /\ UNCHANGED pyMajor

(***************************************************************************)
(* Property getters: each returns how the read ended and the value read.   *)
(***************************************************************************)
Ret(result, value) == [result |-> result, value |-> value]

\* RotaryEncoder.enabled: bool(int(node.enabled))
enabled(fs, eqep) ==
    LET n == IntParse(NodeGet(fs, eqep.sys_path, "enabled"))
    IN  IF n.ok THEN Ret("ok", n.val # 0) ELSE Ret("ValueError", FALSE)

\* RotaryEncoder.mode: int(node.mode)
mode(fs, eqep) ==
    LET n == IntParse(NodeGet(fs, eqep.sys_path, "mode"))
    IN  IF n.ok THEN Ret("ok", n.val) ELSE Ret("ValueError", 0)

\* RotaryEncoder.position: int(node.position)
position(fs, eqep) ==
    LET n == IntParse(NodeGet(fs, eqep.sys_path, "position"))
    IN  IF n.ok THEN Ret("ok", n.val) ELSE Ret("ValueError", 0)

\* RotaryEncoder.frequency: _NS_FACTOR / int(node.period)
frequency(fs, eqep) ==
    LET n == IntParse(NodeGet(fs, eqep.sys_path, "period"))
    IN  IF ~n.ok THEN Ret("ValueError", PyInt(0))
        ELSE IF n.val = 0 THEN Ret("ZeroDivisionError", PyInt(0))
        ELSE Ret("ok", PyDiv(pyMajor, _NS_FACTOR, n.val))

(***************************************************************************)
(* enable() / disable()                                                    *)
(***************************************************************************)
\* enable() with the channel structure shared by all instances (kept on the
\* class instead of on the object)
Enable_shared_eqep(i) ==
    /\ i \in 1..Len(encoders)
    /\ LET r == _setEnable(sysfs, encoders[1], 1) IN
       /\ sysfs' = r.fs
       /\ lastCall' = Call("enable", i, 0, r.result, r.trace)
    /\ UNCHANGED <<pyMajor, encoders>>

Enable(i) ==
    /\ i \in 1..Len(encoders)
    /\ LET r == _setEnable(sysfs, encoders[i], 1) IN
       /\ sysfs' = r.fs
       /\ lastCall' = Call("enable", i, 0, r.result, r.trace)
    /\ UNCHANGED <<pyMajor, encoders>>

Disable(i) ==
    /\ i \in 1..Len(encoders)
    /\ LET r == _setEnable(sysfs, encoders[i], 0) IN
       /\ sysfs' = r.fs
       /\ lastCall' = Call("disable", i, 0, r.result, r.trace)
    /\ UNCHANGED <<pyMajor, encoders>>

(***************************************************************************)
(* mode setter, setAbsolute(), setRelative()                               *)
(***************************************************************************)
\* mode setter that checks the upper limit only
mode_setter_no_lower_check(fs, eqep, m) ==
    IF m > 1
    THEN [result |-> "ValueError", fs |-> fs, trace |-> <<>>]
    ELSE [result |-> "ok",
          fs |-> NodeSet(fs, eqep.sys_path, "mode", IntStr(m)),
          trace |-> <<WriteEv(eqep.sys_path, "mode", IntStr(m)),
                      ReadEv(eqep.sys_path, "mode")>>]

mode_setter(fs, eqep, m) ==
    IF m < 0 \/ m > 1
    THEN [result |-> "ValueError", fs |-> fs, trace |-> <<>>]
    ELSE [result |-> "ok",
          fs |-> NodeSet(fs, eqep.sys_path, "mode", IntStr(m)),
          trace |-> <<WriteEv(eqep.sys_path, "mode", IntStr(m)),
                      ReadEv(eqep.sys_path, "mode")>>]

SetMode(i, m) ==
    /\ i \in 1..Len(encoders)
    /\ LET r == mode_setter(sysfs, encoders[i], m) IN
       /\ sysfs' = r.fs
       /\ lastCall' = Call("mode", i, m, r.result, r.trace)
    /\ UNCHANGED <<pyMajor, encoders>>

setAbsolute(i) ==
    /\ i \in 1..Len(encoders)
    /\ LET r == mode_setter(sysfs, encoders[i], 0) IN
       /\ sysfs' = r.fs
       /\ lastCall' = Call("setAbsolute", i, 0, r.result, r.trace)
    /\ UNCHANGED <<pyMajor, encoders>>

setRelative(i) ==
    /\ i \in 1..Len(encoders)
    /\ LET r == mode_setter(sysfs, encoders[i], 1) IN
       /\ sysfs' = r.fs
       /\ lastCall' = Call("setRelative", i, 0, r.result, r.trace)
    /\ UNCHANGED <<pyMajor, encoders>>

(***************************************************************************)
(* position setter, zero()                                                 *)
(***************************************************************************)
\* position setter that writes the period attribute
position_setter_wrong_attr(fs, eqep, p) ==
    [result |-> "ok",
     fs |-> NodeSet(fs, eqep.sys_path, "period", IntStr(p)),
     trace |-> <<WriteEv(eqep.sys_path, "period", IntStr(p))>>]

position_setter(fs, eqep, p) ==
    [result |-> "ok",
     fs |-> NodeSet(fs, eqep.sys_path, "position", IntStr(p)),
     trace |-> <<WriteEv(eqep.sys_path, "position", IntStr(p))>>]

SetPosition(i, p) ==
    /\ i \in 1..Len(encoders)
    /\ LET r == position_setter(sysfs, encoders[i], p) IN
       /\ sysfs' = r.fs
       /\ lastCall' = Call("position", i, p, r.result, r.trace)
    /\ UNCHANGED <<pyMajor, encoders>>

zero(i) ==
    /\ i \in 1..Len(encoders)
    /\ LET r == position_setter(sysfs, encoders[i], 0) IN
       /\ sysfs' = r.fs
       /\ lastCall' = Call("zero", i, 0, r.result, r.trace)
    /\ UNCHANGED <<pyMajor, encoders>>

(***************************************************************************)
(* frequency setter: period = _NS_FACTOR / frequency; node.period =        *)
(* str(period).  The only failure is the division by zero.                 *)
(***************************************************************************)
frequency_setter(fs, eqep, f) ==
    IF f = 0
    THEN [result |-> "ZeroDivisionError", fs |-> fs, trace |-> <<>>]
    ELSE LET period == PyDiv(pyMajor, _NS_FACTOR, f) IN
         [result |-> "ok",
          fs |-> NodeSet(fs, eqep.sys_path, "period", PyStr(period)),
          trace |-> <<WriteEv(eqep.sys_path, "period", PyStr(period))>>]

SetFrequency(i, f) ==
    /\ i \in 1..Len(encoders)
    /\ LET r == frequency_setter(sysfs, encoders[i], f) IN
       /\ sysfs' = r.fs
       /\ lastCall' = Call("frequency", i, f, r.result, r.trace)
    /\ UNCHANGED <<pyMajor, encoders>>

(***************************************************************************)
(* Spec: a process that holds one controller.  Construction may be tried   *)
(* again after it failed.                                                  *)
(***************************************************************************)
Next ==
    \/ \E n \in Selectors, a \in ExecOutcomes, b \in ExecOutcomes :
          encoders = <<>> /\ New(n, a, b)
    \/ \E i \in DOMAIN encoders : Enable(i)
    \/ \E i \in DOMAIN encoders : Disable(i)
    \/ \E i \in DOMAIN encoders, m \in ModeInputs : SetMode(i, m)
    \/ \E i \in DOMAIN encoders : setAbsolute(i)
    \/ \E i \in DOMAIN encoders : setRelative(i)
    \/ \E i \in DOMAIN encoders, p \in PositionInputs : SetPosition(i, p)
    \/ \E i \in DOMAIN encoders : zero(i)
    \/ \E i \in DOMAIN encoders, f \in FrequencyInputs : SetFrequency(i, f)

Spec == Init /\ [][Next]_vars

(***************************************************************************)
(* SpecPair: a process that holds two controllers, on any two channels     *)
(* (the same channel twice included).                                      *)
(***************************************************************************)
NextPair ==
    \/ \E n \in PairSelectors : Len(encoders) <= 1 /\ New(n, "exit0", "exit0")
    \/ \E i \in DOMAIN encoders : Enable(i)
    \/ \E i \in DOMAIN encoders : Disable(i)
    \/ \E i \in DOMAIN encoders, m \in PairModes : SetMode(i, m)
    \/ \E i \in DOMAIN encoders : setAbsolute(i)
    \/ \E i \in DOMAIN encoders, p \in PairPositions : SetPosition(i, p)
    \/ \E i \in DOMAIN encoders : zero(i)
    \/ \E i \in DOMAIN encoders, f \in PairFrequencies : SetFrequency(i, f)

SpecPair == Init /\ [][NextPair]_vars

(***************************************************************************)
(* Properties                                                              *)
(***************************************************************************)
\* the controller the most recent call acted on (or created)
Acting == encoders[lastCall.enc]

ExecEvents(trace) == SelectSeq(trace, LAMBDA e : e.kind = "exec")
WriteEvents(trace) == SelectSeq(trace, LAMBDA e : e.kind = "write")

\* everything a controller can read of its channel
View(fs, eqep) ==
    [enabled   |-> enabled(fs, eqep),
     mode      |-> mode(fs, eqep),
     position  |-> position(fs, eqep),
     frequency |-> frequency(fs, eqep),
     period    |-> NodeGet(fs, eqep.sys_path, "period")]

\* C1: constructing a RotaryEncoder with an integer selector outside
\* {0,1,2,3} fails with an invalid-channel error, and the failed construction
\* invokes no pin-configuration command and writes no attribute file.
C1_InvalidSelectorRejected ==
    (lastCall.op = "new" /\ lastCall.arg \notin {eQEP0, eQEP1, eQEP2, eQEP2b})
        => /\ lastCall.result = "IndexError"
           /\ lastCall.trace = <<>>

\* C2: the mode setter with 0 or 1 succeeds and a following read of mode
\* returns that value (setAbsolute and setRelative are the setter with 0 and
\* 1); with any other integer it fails with ValueError before any file I/O
\* and every attribute file keeps its content.
C2_ModeSetter ==
    [][ /\ lastCall'.op = "mode" =>
             IF lastCall'.arg \in {0, 1}
             THEN /\ lastCall'.result = "ok"
                  /\ mode(sysfs', encoders[lastCall'.enc])
                        = Ret("ok", lastCall'.arg)
             ELSE /\ lastCall'.result = "ValueError"
                  /\ lastCall'.trace = <<>>
                  /\ sysfs' = sysfs
        /\ lastCall'.op = "setAbsolute" =>
             /\ lastCall'.result = "ok"
             /\ mode(sysfs', encoders[lastCall'.enc]) = Ret("ok", 0)
        /\ lastCall'.op = "setRelative" =>
             /\ lastCall'.result = "ok"
             /\ mode(sysfs', encoders[lastCall'.enc]) = Ret("ok", 1)
      ]_vars

\* C2 witness: the setter was called with 2 on a channel in relative mode; it
\* failed and the mode file still reads 1.
C2_Witness ==
    /\ lastCall.op = "mode"
    /\ lastCall.arg = 2
    /\ lastCall.result = "ValueError"
    /\ NodeGet(sysfs, Acting.sys_path, "mode") = <<"1">>

\* C3: setting frequency to a value <= 0 fails with an error raised before
\* any I/O, and the period file keeps its previous content.
C3_NonPositiveFrequencyRejected ==
    [][ (lastCall'.op = "frequency" /\ lastCall'.arg <= 0)
            => /\ lastCall'.result # "ok"
               /\ lastCall'.trace = <<>>
               /\ sysfs' = sysfs
      ]_vars

\* C4: setting frequency to a positive integer f that divides 1000000000
\* leaves the period file holding the integer decimal text of 1000000000/f,
\* with no decimal point.
C4_PeriodIsIntegerText ==
    (/\ lastCall.op = "frequency"
     /\ lastCall.arg > 0
     /\ _NS_FACTOR % lastCall.arg = 0)
        => /\ lastCall.result = "ok"
           /\ NodeGet(sysfs, Acting.sys_path, "period")
                 = IntStr(_NS_FACTOR \div lastCall.arg)

\* C5: when config-pin exits non-zero for pin A, for pin B or for both,
\* construction on a valid channel completes without raising and the
\* channel's enabled attribute holds 1 (enabled reads true).
C5_ConfigPinFailureNotFatal ==
    (/\ lastCall.op = "new"
     /\ ListIndex(lastCall.arg, Len(_eQEP_DEFS)) # 0
     /\ Len(lastCall.trace) >= 2
     /\ \A k \in 1..2 : lastCall.trace[k] \in
            {ExecEv(lastCall.trace[k].target, o) : o \in {"exit0", "exit1"}}
     /\ \E k \in 1..2 : lastCall.trace[k].data = <<"exit1">>)
        => /\ lastCall.result = "ok"
           /\ lastCall.enc \in DOMAIN encoders
           /\ NodeGet(sysfs, Acting.sys_path, "enabled") = <<"1">>
           /\ enabled(sysfs, Acting) = Ret("ok", TRUE)

\* C5 witness: a construction during which config-pin exited non-zero for
\* both pins.
C5_Witness ==
    /\ lastCall.op = "new"
    /\ lastCall.result = "ok"
    /\ Len(ExecEvents(lastCall.trace)) = 2
    /\ \A k \in 1..2 : ExecEvents(lastCall.trace)[k].data = <<"exit1">>

\* C6: a controller is enabled right after its construction; enable() makes
\* enabled read true, disable() makes it read false, and every other call on
\* the controller leaves what enabled reads unchanged; so enabled reads true
\* exactly when the most recent of the enable()/disable() calls since
\* construction was enable() or none was made.
C6_EnabledFollowsLastSwitch ==
    [][ /\ (lastCall'.op = "new" /\ lastCall'.result = "ok")
             => enabled(sysfs', encoders'[lastCall'.enc]) = Ret("ok", TRUE)
        /\ lastCall'.op = "enable"
             => enabled(sysfs', encoders[lastCall'.enc]) = Ret("ok", TRUE)
        /\ lastCall'.op = "disable"
             => enabled(sysfs', encoders[lastCall'.enc]) = Ret("ok", FALSE)
        /\ lastCall'.op \notin {"new", "enable", "disable"}
             => enabled(sysfs', encoders[lastCall'.enc])
                   = enabled(sysfs, encoders[lastCall'.enc])
      ]_vars

\* C6 witness: disable() was called on a constructed controller and enabled
\* reads false.
C6_Witness ==
    /\ lastCall.op = "disable"
    /\ lastCall.result = "ok"
    /\ enabled(sysfs, Acting) = Ret("ok", FALSE)

\* C7 (as stated): for two controllers constructed on two different channel
\* selectors among {0,1,2,3}, every operation on one leaves unchanged
\* everything the other reads.
C7_DifferentChannelsIndependent ==
    [][ \A j \in DOMAIN encoders :
          (/\ lastCall'.op # "new"
           /\ lastCall'.enc # j
           /\ encoders[lastCall'.enc].channel # encoders[j].channel)
              => View(sysfs', encoders[j]) = View(sysfs, encoders[j])
      ]_vars

\* C7 (amended): for two controllers whose channels have different device
\* directories (every pair of different selectors among {0,1,2,3} except
\* eQEP2 with eQEP2b), every operation on one leaves unchanged everything
\* the other reads.
C7_DisjointDirectoriesIndependent ==
    [][ \A j \in DOMAIN encoders :
          (/\ lastCall'.op # "new"
           /\ lastCall'.enc # j
           /\ encoders[lastCall'.enc].sys_path # encoders[j].sys_path)
              => View(sysfs', encoders[j]) = View(sysfs, encoders[j])
      ]_vars

\* C7 witness: two controllers on different directories; the second was
\* moved to position 15 and put in relative mode, then the first was zeroed.
C7_Witness ==
    /\ Len(encoders) = 2
    /\ encoders[1].sys_path # encoders[2].sys_path
    /\ lastCall.op = "zero"
    /\ lastCall.enc = 1
    /\ position(sysfs, encoders[2]) = Ret("ok", 15)
    /\ mode(sysfs, encoders[2]) = Ret("ok", 1)

\* C8: for a positive integer f dividing 1000000000, setting frequency to f
\* and then reading frequency succeeds and returns f; and whenever the period
\* file holds the integer text of p > 0, reading frequency returns
\* 1000000000/p.
C8_FrequencyRoundTrip ==
    /\ (/\ lastCall.op = "frequency"
        /\ lastCall.arg > 0
        /\ _NS_FACTOR % lastCall.arg = 0)
           => /\ frequency(sysfs, Acting).result = "ok"
              /\ NumEq(frequency(sysfs, Acting).value, lastCall.arg)
    /\ \A i \in DOMAIN encoders :
          LET p == IntParse(NodeGet(sysfs, encoders[i].sys_path, "period"))
              r == frequency(sysfs, encoders[i])
          IN  (p.ok /\ p.val > 0)
                 => /\ r.result = "ok"
                    /\ r.value.num * p.val = _NS_FACTOR * r.value.den

\* C9: setting position to p and reading it back returns p; after zero()
\* position reads 0; neither changes the enabled, mode or period attribute.
C9_PositionRoundTrip ==
    [][ lastCall'.op \in {"position", "zero"} =>
          LET e == encoders[lastCall'.enc] IN
          /\ lastCall'.result = "ok"
          /\ position(sysfs', e)
                = Ret("ok", IF lastCall'.op = "zero" THEN 0 ELSE lastCall'.arg)
          /\ \A a \in Attributes \ {"position"} :
                NodeGet(sysfs', e.sys_path, a) = NodeGet(sysfs, e.sys_path, a)
      ]_vars

\* C9 witness: position was set to a negative two-digit count on a channel
\* whose mode and period had been changed before.
C9_Witness ==
    /\ lastCall.op = "position"
    /\ lastCall.arg = -MaxPosition
    /\ position(sysfs, Acting) = Ret("ok", -MaxPosition)
    /\ NodeGet(sysfs, Acting.sys_path, "mode") = <<"1">>
    /\ NodeGet(sysfs, Acting.sys_path, "period") # IntStr(_NS_FACTOR)

\* C10: a successful construction runs config-pin exactly twice, for pin A
\* and then for pin B of the channel, each with mode "qep", both before the
\* single write, which stores 1 in the channel's enabled file; no other
\* attribute file is written.
C10_ConstructionOrder ==
    [][ (lastCall'.op = "new" /\ lastCall'.result = "ok") =>
          LET e == encoders'[lastCall'.enc]
              t == lastCall'.trace
          IN  /\ Len(ExecEvents(t)) = 2
              /\ Len(WriteEvents(t)) = 1
              /\ Len(t) >= 3
              /\ t[1].kind = "exec" /\ t[1].target = <<"config-pin", e.pin_A, "qep">>
              /\ t[2].kind = "exec" /\ t[2].target = <<"config-pin", e.pin_B, "qep">>
              /\ t[3] = WriteEv(e.sys_path, "enabled", <<"1">>)
              /\ \A k \in 4..Len(t) : t[k].kind = "read"
              /\ sysfs' = NodeSet(sysfs, e.sys_path, "enabled", <<"1">>)
      ]_vars

\* C10 witness: a construction on eQEP2b succeeded.
C10_Witness ==
    /\ lastCall.op = "new"
    /\ lastCall.result = "ok"
    /\ lastCall.arg = eQEP2b
    /\ Acting.pin_A = "P8_41"
=============================================================================
